---- MODULE Spec2Model ----
(***************************************************************************)
(* Billing ledger API (src/server.js, the Express application of lines     *)
(* 37-475): clients, invoices and payments in a relational store, and the  *)
(* HTTP handlers that read and write them.                                 *)
(*                                                                         *)
(* Node runs one handler at a time between two awaits, so a step of the    *)
(* model is one store query together with the synchronous code that        *)
(* follows it up to the next query.  Handlers with several queries (POST   *)
(* /payments, PUT and DELETE /invoices/:id, DELETE /payments/:id) are kept *)
(* in the bag `inflight` between their steps and interleave freely.        *)
(*                                                                         *)
(* Falsy JavaScript values (undefined, null, 0, "") are modelled by 0 for  *)
(* numbers and "" for strings; an optional JSON field is <<>> or <<v>>.    *)
(* Time stamps (date_created, payment_date) are not modelled.  The store   *)
(* enforces invoices.invoice_number UNIQUE and no foreign key (deletes     *)
(* leave orphans), as the ledger's schema is described.                    *)
(*                                                                         *)
(* Three specifications share the variables:                               *)
(*   Spec       the ledger under concurrent requests, one invoice          *)
(*   SpecBatch  the invoice batch writer, batches of 0 to 6 entries        *)
(*   SpecRead   the read handlers over every store of a bounded universe   *)
(***************************************************************************)
EXTENDS Integers, Sequences, FiniteSets, Bags, TLC

\* ------------------------------------------------------------- bounds
MaxInvoiceId == 1
MaxPaymentId == 3
MaxAmount == 2
MaxBatch == 2
MaxInFlight == 2
NumDraws == 1
BatchMaxInvoiceId == 5
BatchDraws == 5
ReadMaxClientId == 2
ReadMaxInvoiceId == 2
ReadMaxPaymentId == 2
MaxClientId == 2
SeqMaxInvoiceId == 3
SerialMaxInvoiceId == 2

\* -------------------------------------------------- program constants
MaxInvoicesPerRequest == 5
RandBase == 10000
RandSpan == 90000
PaymentColumns == 3
PlaceholderStride == 4

VARIABLES clients, invoices, payments,
          nextClientId, nextInvoiceId, nextPaymentId,
          inflight, lastResp

vars == <<clients, invoices, payments, nextClientId, nextInvoiceId,
          nextPaymentId, inflight, lastResp>>

store == <<clients, invoices, payments, nextClientId, nextInvoiceId, nextPaymentId>>

\* ------------------------------------------------------------ helpers
Range(s) == {s[k] : k \in 1..Len(s)}

SeqsUpTo(S, n) == UNION {[1..k -> S] : k \in 0..n}

RECURSIVE SumAmounts(_)
SumAmounts(rows) ==
  IF rows = {} THEN 0
  ELSE LET x == CHOOSE y \in rows : TRUE
       IN  x.amount + SumAmounts(rows \ {x})

\* COALESCE($1, old): the new value when one is given, else the stored one
Coalesce(opt, old) == IF opt = <<>> THEN old ELSE opt[1]

\* ------------------------------------------------- the balance queries
PaymentsOf(id) == {p \in payments : p.invoice_id = id}

\* COALESCE((SELECT SUM(amount) FROM payments WHERE invoice_id = id), 0)
TotalPaid(id) == SumAmounts(PaymentsOf(id))

\* amount - COALESCE(SUM(payments), 0): no clamping
Outstanding(inv) == inv.amount - TotalPaid(inv.id)

\* SELECT client_id, amount, balance_outstanding FROM invoices WHERE id = $1
BalanceQuery(id) ==
  {[client_id |-> i.client_id, amount |-> i.amount,
    balance_outstanding |-> Outstanding(i)] : i \in {j \in invoices : j.id = id}}

\* ---------------------------------------------------------- responses
NoBody == <<>>

Resp(op, arg, body, status, err, rows) ==
  [op |-> op, arg |-> arg, body |-> body, status |-> status, err |-> err,
   rows |-> rows, result |-> {}, nums |-> <<>>]

\* ---------------------------------------------------- in-flight handlers
Req(op, pc, batch, idx, id, amount, item) ==
  [op |-> op, pc |-> pc, batch |-> batch, idx |-> idx,
   id |-> id, amount |-> amount, item |-> item]

InFlight == BagToSet(inflight)

Add(r) == inflight (+) SetToBag({r})
Remove(r) == inflight (-) SetToBag({r})
Replace(r, s) == (inflight (-) SetToBag({r})) (+) SetToBag({s})

\* payment ids the handlers in flight will still draw from the sequence
RECURSIVE PendingRows(_)
PendingRows(b) ==
  IF b = EmptyBag THEN 0
  ELSE LET r == CHOOSE x \in BagToSet(b) : TRUE
       IN  Len(r.batch) + PendingRows(b (-) SetToBag({r}))

Init ==
  /\ clients = {}
  /\ invoices = {}
  /\ payments = {}
  /\ nextClientId = 1
  /\ nextInvoiceId = 1
  /\ nextPaymentId = 1
  /\ inflight = EmptyBag
  /\ lastResp = Resp("none", 0, NoBody, 0, "", <<>>)

\* ------------------------------------------------------ POST /invoices
InvoiceEntry(c, it, a, d, s) ==
  [client_id |-> c, item |-> it, amount |-> a, due_date |-> d, status |-> s]

\* Math.floor(Math.random() * 90000) + 10000: the first n values of the range
RandomNumbers(n) ==
  {RandBase + k : k \in 0..((IF n < RandSpan THEN n ELSE RandSpan) - 1)}

ValidDates == {"2025-01-31"}

\* new Date(d).toISOString() throws RangeError on a string that is no date
ParsesAsDate(d) == d \in ValidDates

\* !invoice.client_id || !invoice.item || !invoice.amount || !invoice.due_date
IncompleteInvoice(e) ==
  e.client_id = 0 \/ e.item = "" \/ e.amount = 0 \/ e.due_date = ""

\* a count check that turns away a batch of exactly five
ValidateInvoices_OffByOne(batch) ==
  IF Len(batch) = 0 \/ Len(batch) >= MaxInvoicesPerRequest THEN "count"
  ELSE IF \E k \in 1..Len(batch) : IncompleteInvoice(batch[k]) THEN "fields"
  ELSE ""

\* the count check and the validation loop; "" when the batch passes
ValidateInvoices(batch) ==
  IF Len(batch) = 0 \/ Len(batch) > MaxInvoicesPerRequest THEN "count"
  ELSE IF \E k \in 1..Len(batch) : IncompleteInvoice(batch[k]) THEN "fields"
  ELSE ""

\* the VALUES tuples of the INSERT, with the ids the store will assign
BuildInvoiceRows(batch, nums) ==
  [k \in 1..Len(batch) |->
     [id |-> nextInvoiceId + k - 1,
      client_id |-> batch[k].client_id,
      invoice_number |-> nums[k],
      item |-> batch[k].item,
      amount |-> batch[k].amount,
      due_date |-> batch[k].due_date,
      status |-> IF batch[k].status = "" THEN "Pending" ELSE batch[k].status]]

\* a store without the constraint
UniqueViolation_NoConstraint(rows) == FALSE

\* invoices.invoice_number UNIQUE: the statement fails as a whole
UniqueViolation(rows) ==
  \/ \E j, k \in 1..Len(rows) : j # k /\ rows[j].invoice_number = rows[k].invoice_number
  \/ \E k \in 1..Len(rows) : \E i \in invoices : i.invoice_number = rows[k].invoice_number

\* the numbers the handler generated go out with the logged VALUES
InvoiceResp(batch, status, err, rows, nums) ==
  [Resp("POST /invoices", 0, batch, status, err, rows) EXCEPT !.nums = nums]

\* a handler that inserts row by row and stops at the first row the store
\* refuses
PostInvoices_RowByRow(cap, batch, nums) ==
  LET verdict == ValidateInvoices(batch)
      rows == BuildInvoiceRows(batch, nums)
      refused(k) == UniqueViolation(SubSeq(rows, 1, k))
      kept == {rows[k] : k \in {j \in 1..Len(rows) : ~refused(j)}}
  IN  /\ verdict = "" => nextInvoiceId + Len(batch) - 1 <= cap
      /\ UNCHANGED <<clients, payments, nextClientId, nextPaymentId, inflight>>
      /\ IF verdict # ""
         THEN /\ lastResp' = InvoiceResp(batch, 400, verdict, <<>>, <<>>)
              /\ UNCHANGED <<invoices, nextInvoiceId>>
         ELSE IF \E k \in 1..Len(batch) : ~ParsesAsDate(batch[k].due_date)
         THEN /\ lastResp' = InvoiceResp(batch, 500, "invalid_date", <<>>, <<>>)
              /\ UNCHANGED <<invoices, nextInvoiceId>>
         ELSE /\ invoices' = invoices \cup kept
              /\ nextInvoiceId' = nextInvoiceId + Len(batch)
              /\ lastResp' = IF UniqueViolation(rows)
                             THEN InvoiceResp(batch, 500, "duplicate_key", <<>>, nums)
                             ELSE InvoiceResp(batch, 201, "", rows, nums)

\* a batch that passes validation is admitted while the id sequence has room
PostInvoices(cap, batch, nums) ==
  LET verdict == ValidateInvoices(batch)
      rows == BuildInvoiceRows(batch, nums)
  IN  /\ verdict = "" => nextInvoiceId + Len(batch) - 1 <= cap
      /\ UNCHANGED <<clients, payments, nextClientId, nextPaymentId, inflight>>
      /\ IF verdict # ""
         THEN /\ lastResp' = InvoiceResp(batch, 400, verdict, <<>>, <<>>)
              /\ UNCHANGED <<invoices, nextInvoiceId>>
         ELSE IF \E k \in 1..Len(batch) : ~ParsesAsDate(batch[k].due_date)
         THEN /\ lastResp' = InvoiceResp(batch, 500, "invalid_date", <<>>, <<>>)
              /\ UNCHANGED <<invoices, nextInvoiceId>>
         ELSE IF UniqueViolation(rows)
         THEN /\ lastResp' = InvoiceResp(batch, 500, "duplicate_key", <<>>, nums)
              /\ UNCHANGED <<invoices, nextInvoiceId>>
         ELSE /\ invoices' = invoices \cup Range(rows)
              /\ nextInvoiceId' = nextInvoiceId + Len(batch)
              /\ lastResp' = InvoiceResp(batch, 201, "", rows, nums)

\* ------------------------------------------------- PUT /invoices/:id
PutStart(cap, id, amount, item) ==
  /\ BagCardinality(inflight) < cap
  /\ UNCHANGED store
  /\ IF {i \in invoices : i.id = id} = {}
     THEN /\ lastResp' = Resp("PUT /invoices/:id", id, NoBody, 404, "not_found", <<>>)
          /\ UNCHANGED inflight
     ELSE /\ inflight' = Add(Req("put", "update", <<>>, 0, id, amount, item))
          /\ UNCHANGED lastResp

\* an UPDATE that writes the request's fields as they came, omitted ones as 0
\* and ""
UpdateInvoice_Overwrite(i, r) ==
  [i EXCEPT !.amount = IF r.amount = <<>> THEN 0 ELSE r.amount[1],
            !.item = IF r.item = <<>> THEN "" ELSE r.item[1]]

\* UPDATE invoices SET amount = COALESCE($1, amount), item = COALESCE($2, item)
\* WHERE id = $3 RETURNING *
UpdateInvoice(i, r) ==
  [i EXCEPT !.amount = Coalesce(r.amount, i.amount), !.item = Coalesce(r.item, i.item)]

PutUpdate(r) ==
  LET hit == {i \in invoices : i.id = r.id}
      new == {UpdateInvoice(i, r) : i \in hit}
  IN  /\ r \in InFlight /\ r.op = "put" /\ r.pc = "update"
      /\ invoices' = (invoices \ hit) \cup new
      /\ inflight' = Remove(r)
      \* res.json(updatedInvoice.rows[0]): no body when no row was updated
      /\ lastResp' = Resp("PUT /invoices/:id", r.id, NoBody, 200, "",
                          IF new = {} THEN <<>> ELSE <<CHOOSE i \in new : TRUE>>)
      /\ UNCHANGED <<clients, payments, nextClientId, nextInvoiceId, nextPaymentId>>

\* ----------------------------------------------- DELETE /invoices/:id
DeleteInvoiceStart(cap, id) ==
  /\ BagCardinality(inflight) < cap
  /\ UNCHANGED store
  /\ IF {i \in invoices : i.id = id} = {}
     THEN /\ lastResp' = Resp("DELETE /invoices/:id", id, NoBody, 404, "not_found", <<>>)
          /\ UNCHANGED inflight
     ELSE /\ inflight' = Add(Req("deleteInvoice", "delete", <<>>, 0, id, <<>>, <<>>))
          /\ UNCHANGED lastResp

\* a delete that takes the invoice's payments with it
DeleteInvoiceExec_Cascade(r) ==
  /\ r \in InFlight /\ r.op = "deleteInvoice" /\ r.pc = "delete"
  /\ invoices' = {i \in invoices : i.id # r.id}
  /\ payments' = {p \in payments : p.invoice_id # r.id}
  /\ inflight' = Remove(r)
  /\ lastResp' = Resp("DELETE /invoices/:id", r.id, NoBody, 200, "", <<>>)
  /\ UNCHANGED <<clients, nextClientId, nextInvoiceId, nextPaymentId>>

DeleteInvoiceExec(r) ==
  /\ r \in InFlight /\ r.op = "deleteInvoice" /\ r.pc = "delete"
  /\ invoices' = {i \in invoices : i.id # r.id}
  /\ inflight' = Remove(r)
  /\ lastResp' = Resp("DELETE /invoices/:id", r.id, NoBody, 200, "", <<>>)
  /\ UNCHANGED <<clients, payments, nextClientId, nextInvoiceId, nextPaymentId>>

\* ----------------------------------------------- DELETE /payments/:id
DeletePaymentStart(cap, id) ==
  /\ BagCardinality(inflight) < cap
  /\ UNCHANGED store
  /\ IF {p \in payments : p.id = id} = {}
     THEN /\ lastResp' = Resp("DELETE /payments/:id", id, NoBody, 404, "not_found", <<>>)
          /\ UNCHANGED inflight
     ELSE /\ inflight' = Add(Req("deletePayment", "delete", <<>>, 0, id, <<>>, <<>>))
          /\ UNCHANGED lastResp

DeletePaymentExec(r) ==
  /\ r \in InFlight /\ r.op = "deletePayment" /\ r.pc = "delete"
  /\ payments' = {p \in payments : p.id # r.id}
  /\ inflight' = Remove(r)
  /\ lastResp' = Resp("DELETE /payments/:id", r.id, NoBody, 200, "", <<>>)
  /\ UNCHANGED <<clients, invoices, nextClientId, nextInvoiceId, nextPaymentId>>

\* ------------------------------------------------------ POST /payments
PaymentEntry(i, m, a) == [invoice_id |-> i, mode |-> m, amount |-> a]

\* !invoice_id || !mode || !amount
IncompletePayment(e) == e.invoice_id = 0 \/ e.mode = "" \/ e.amount = 0

\* a handler without the overpayment check
CheckPayment_NoOverpay(e, q) ==
  IF q = {} THEN "not_found"
  ELSE LET invoice == CHOOSE x \in q : TRUE
       IN  IF invoice.balance_outstanding <= 0 THEN "fully_paid" ELSE ""

\* a handler that takes a balance of exactly zero for an open invoice
CheckPayment_StrictZero(e, q) ==
  IF q = {} THEN "not_found"
  ELSE LET invoice == CHOOSE x \in q : TRUE
       IN  IF invoice.balance_outstanding < 0 THEN "fully_paid"
           ELSE IF e.amount > invoice.balance_outstanding THEN "overpayment"
           ELSE ""

\* the checks on the row the balance query returned; "" when the entry passes
CheckPayment(e, q) ==
  IF q = {} THEN "not_found"
  ELSE LET invoice == CHOOSE x \in q : TRUE
       IN  IF invoice.balance_outstanding <= 0 THEN "fully_paid"
           ELSE IF e.amount > invoice.balance_outstanding THEN "overpayment"
           ELSE ""

\* the handler up to its first query: the array check and entry 1's fields
PayStart(cap, batch) ==
  /\ BagCardinality(inflight) < cap
  /\ UNCHANGED store
  /\ IF Len(batch) = 0
     THEN /\ lastResp' = Resp("POST /payments", 0, batch, 400, "empty", <<>>)
          /\ UNCHANGED inflight
     ELSE IF IncompletePayment(batch[1])
     THEN /\ lastResp' = Resp("POST /payments", 0, batch, 400, "fields", <<>>)
          /\ UNCHANGED inflight
     ELSE /\ nextPaymentId + PendingRows(inflight) + Len(batch) - 1 <= MaxPaymentId
          /\ inflight' = Add(Req("pay", "check", batch, 1, 0, <<>>, <<>>))
          /\ UNCHANGED lastResp

\* the balance query of entry idx, its checks, and the next entry's fields
PayCheck(r) ==
  LET e == r.batch[r.idx]
      q == BalanceQuery(e.invoice_id)
      verdict == CheckPayment(e, q)
  IN  /\ r \in InFlight /\ r.op = "pay" /\ r.pc = "check"
      /\ UNCHANGED store
      /\ IF verdict # ""
         THEN /\ lastResp' = Resp("POST /payments", 0, r.batch, 400, verdict, <<>>)
              /\ inflight' = Remove(r)
         ELSE IF r.idx = Len(r.batch)
         THEN /\ inflight' = Replace(r, [r EXCEPT !.pc = "insert"])
              /\ UNCHANGED lastResp
         ELSE IF IncompletePayment(r.batch[r.idx + 1])
         THEN /\ lastResp' = Resp("POST /payments", 0, r.batch, 400, "fields", <<>>)
              /\ inflight' = Remove(r)
         ELSE /\ inflight' = Replace(r, [r EXCEPT !.idx = r.idx + 1])
              /\ UNCHANGED lastResp

\* payments.map(({ invoice_id, mode, amount }) => [...]).flat()
FlatValues(batch) ==
  [x \in 1..(PaymentColumns * Len(batch)) |->
     LET e == batch[((x - 1) \div PaymentColumns) + 1]
         j == ((x - 1) % PaymentColumns) + 1
     IN  IF j = 1 THEN <<e.invoice_id>> ELSE IF j = 2 THEN <<e.mode>> ELSE <<e.amount>>]

\* the parameter number of column j in VALUES tuple i, 0-based: $(i * 4 + j)
Placeholder(i, j) == i * PlaceholderStride + j

Referenced(n) ==
  {Placeholder(i, j) : i \in 0..(n - 1), j \in 1..PaymentColumns}

\* the store takes the statement when the parameters it refers to are $1..$m
\* and m values are bound; a statement that skips $4 or refers to a parameter
\* past the bound values fails
StatementBinds(n) == Referenced(n) = 1..(PaymentColumns * n)

\* INSERT INTO payments ... VALUES (...), (...) RETURNING *
BuildPaymentRows(batch) ==
  LET flat == FlatValues(batch)
  IN  [k \in 1..Len(batch) |->
         [id |-> nextPaymentId + k - 1,
          invoice_id |-> flat[Placeholder(k - 1, 1)][1],
          mode |-> flat[Placeholder(k - 1, 2)][1],
          amount |-> flat[Placeholder(k - 1, 3)][1]]]

\* a handler that validates again inside the inserting transaction
PayInsert_Rechecked(r) ==
  /\ r \in InFlight /\ r.op = "pay" /\ r.pc = "insert"
  /\ \A k \in 1..Len(r.batch) :
       CheckPayment(r.batch[k], BalanceQuery(r.batch[k].invoice_id)) = ""
  /\ inflight' = Remove(r)
  /\ UNCHANGED <<clients, invoices, nextClientId, nextInvoiceId>>
  /\ IF StatementBinds(Len(r.batch))
     THEN LET rows == BuildPaymentRows(r.batch)
          IN  /\ payments' = payments \cup Range(rows)
              /\ nextPaymentId' = nextPaymentId + Len(rows)
              /\ lastResp' = Resp("POST /payments", 0, r.batch, 201, "", rows)
     ELSE /\ lastResp' = Resp("POST /payments", 0, r.batch, 500, "bind_error", <<>>)
          /\ UNCHANGED <<payments, nextPaymentId>>

\* a handler that marks an invoice "Paid" when its payments reach its amount
PayInsert_MarksPaid(r) ==
  /\ r \in InFlight /\ r.op = "pay" /\ r.pc = "insert"
  /\ inflight' = Remove(r)
  /\ UNCHANGED <<clients, nextClientId, nextInvoiceId>>
  /\ IF StatementBinds(Len(r.batch))
     THEN LET rows == BuildPaymentRows(r.batch)
              paid(i) == SumAmounts({p \in payments \cup Range(rows) : p.invoice_id = i.id})
          IN  /\ payments' = payments \cup Range(rows)
              /\ nextPaymentId' = nextPaymentId + Len(rows)
              /\ invoices' = {IF paid(i) >= i.amount THEN [i EXCEPT !.status = "Paid"] ELSE i :
                                i \in invoices}
              /\ lastResp' = Resp("POST /payments", 0, r.batch, 201, "", rows)
     ELSE /\ lastResp' = Resp("POST /payments", 0, r.batch, 500, "bind_error", <<>>)
          /\ UNCHANGED <<payments, nextPaymentId, invoices>>

\* the INSERT and the response; a statement the store refuses ends in the
\* catch block
PayInsert(r) ==
  /\ r \in InFlight /\ r.op = "pay" /\ r.pc = "insert"
  /\ inflight' = Remove(r)
  /\ UNCHANGED <<clients, invoices, nextClientId, nextInvoiceId>>
  /\ IF StatementBinds(Len(r.batch))
     THEN LET rows == BuildPaymentRows(r.batch)
          IN  /\ payments' = payments \cup Range(rows)
              /\ nextPaymentId' = nextPaymentId + Len(rows)
              /\ lastResp' = Resp("POST /payments", 0, r.batch, 201, "", rows)
     ELSE /\ lastResp' = Resp("POST /payments", 0, r.batch, 500, "bind_error", <<>>)
          /\ UNCHANGED <<payments, nextPaymentId>>

\* ------------------------------------------- the ledger under concurrency
LedgerInvoiceEntries ==
  {InvoiceEntry(1, "widget", a, "2025-01-31", "") : a \in 1..MaxAmount}

LedgerInvoiceBatches == SeqsUpTo(LedgerInvoiceEntries, MaxBatch)

PaymentEntries ==
  {PaymentEntry(i, "cash", a) : i \in 1..MaxInvoiceId, a \in 1..MaxAmount}
    \cup {PaymentEntry(0, "cash", 1), PaymentEntry(1, "", 1), PaymentEntry(1, "cash", 0),
          PaymentEntry(1, "cash", -1)}

PaymentBatches == SeqsUpTo(PaymentEntries, MaxBatch)

PutAmounts == {<<>>} \cup {<<a>> : a \in 1..MaxAmount}
PutItems == {<<>>, <<"gadget">>}

Next ==
  \/ \E b \in LedgerInvoiceBatches : \E n \in [1..Len(b) -> RandomNumbers(NumDraws)] :
       PostInvoices(MaxInvoiceId, b, n)
  \/ \E id \in 1..MaxInvoiceId : \E a \in PutAmounts : \E it \in PutItems :
       PutStart(MaxInFlight, id, a, it)
  \/ \E r \in InFlight : PutUpdate(r)
  \/ \E id \in 1..MaxInvoiceId : DeleteInvoiceStart(MaxInFlight, id)
  \/ \E r \in InFlight : DeleteInvoiceExec(r)
  \/ \E id \in 1..MaxPaymentId : DeletePaymentStart(MaxInFlight, id)
  \/ \E r \in InFlight : DeletePaymentExec(r)
  \/ \E b \in PaymentBatches : PayStart(MaxInFlight, b)
  \/ \E r \in InFlight : PayCheck(r)
  \/ \E r \in InFlight : PayInsert(r)

Spec == Init /\ [][Next]_vars

\* --------------------------------------------- the invoice batch writer
BatchEntry == InvoiceEntry(1, "widget", 1, "2025-01-31", "")

\* an entry with one field falsy, or a due date that is no date
BatchVariants ==
  {[BatchEntry EXCEPT !.client_id = 0], [BatchEntry EXCEPT !.item = ""],
   [BatchEntry EXCEPT !.amount = 0], [BatchEntry EXCEPT !.due_date = ""],
   [BatchEntry EXCEPT !.due_date = "soon"]}

\* 0 to 6 entries, all BatchEntry but at most one, at any position
InvoiceBatches ==
  LET plain(n) == [k \in 1..n |-> BatchEntry]
  IN  UNION {{plain(n)} \cup {[plain(n) EXCEPT ![k] = v] : k \in 1..n, v \in BatchVariants}
               : n \in 0..(MaxInvoicesPerRequest + 1)}

\* the numbers are drawn only for a batch that reaches the INSERT
DrawsFor(b) ==
  IF ValidateInvoices(b) = "" /\ \A k \in 1..Len(b) : ParsesAsDate(b[k].due_date)
  THEN [1..Len(b) -> RandomNumbers(BatchDraws)]
  ELSE {[k \in 1..Len(b) |-> RandBase]}

\* the client reads the response before it sends its next request
Deliver ==
  /\ lastResp.op # "none"
  /\ lastResp' = Resp("none", 0, NoBody, 0, "", <<>>)
  /\ UNCHANGED <<store, inflight>>

NextBatch ==
  \/ /\ lastResp.op = "none"
     /\ \E b \in InvoiceBatches : \E n \in DrawsFor(b) :
          PostInvoices(BatchMaxInvoiceId, b, n)
  \/ Deliver

SpecBatch == Init /\ [][NextBatch]_vars

\* ------------------------------------------------------ the read side
\* app.get / app.post / app.put / app.delete in the order of registration
Routes ==
  <<[method |-> "GET", path |-> "/", handler |-> "root"],
    [method |-> "GET", path |-> "/clients", handler |-> "listClients"],
    [method |-> "POST", path |-> "/clients", handler |-> "createClient"],
    [method |-> "GET", path |-> "/clients/:id", handler |-> "getClient"],
    [method |-> "DELETE", path |-> "/clients/:id", handler |-> "deleteClient"],
    [method |-> "GET", path |-> "/invoices", handler |-> "listAllInvoices"],
    [method |-> "POST", path |-> "/invoices", handler |-> "createInvoices"],
    [method |-> "PUT", path |-> "/invoices/:id", handler |-> "updateInvoice"],
    [method |-> "DELETE", path |-> "/invoices/:id", handler |-> "deleteInvoice"],
    [method |-> "GET", path |-> "/payments", handler |-> "listPayments"],
    [method |-> "GET", path |-> "/invoices", handler |-> "unpaidInvoices"],
    [method |-> "POST", path |-> "/payments", handler |-> "createPayments"],
    [method |-> "DELETE", path |-> "/payments/:id", handler |-> "deletePayment"],
    [method |-> "GET", path |-> "/reports/outstanding", handler |-> "reportOutstanding"],
    [method |-> "GET", path |-> "/reports/overall", handler |-> "reportOverall"],
    [method |-> "GET", path |-> "/reports/payments", handler |-> "reportPayments"]>>

\* the router runs the first matching route; no handler here calls next()
Dispatch(method, path) ==
  LET hits == {k \in 1..Len(Routes) :
                 Routes[k].method = method /\ Routes[k].path = path}
  IN  IF hits = {} THEN "notFound"
      ELSE Routes[CHOOSE k \in hits : \A j \in hits : k <= j].handler

\* invoices JOIN clients, with total_paid; an invoice without its client row
\* drops out of the join
ListAllInvoices ==
  {[id |-> i.id, invoice_number |-> i.invoice_number, amount |-> i.amount,
    due_date |-> i.due_date, status |-> i.status, client_id |-> i.client_id,
    item |-> i.item, full_name |-> c.full_name, total_paid |-> TotalPaid(i.id)] :
     <<i, c>> \in {x \in invoices \X clients : x[1].client_id = x[2].id}}

\* the rows the unpaid-invoices statement selects for a client: its invoices
\* with amount - COALESCE(SUM(payments), 0) > 0
UnpaidInvoices(c) ==
  {[id |-> i.id, invoice_number |-> i.invoice_number, amount |-> i.amount,
    balance_outstanding |-> Outstanding(i)] :
     i \in {j \in invoices : j.client_id = c /\ Outstanding(j) > 0}}

ReadResp(arg, status, err, result) ==
  [Resp("GET /invoices", arg, NoBody, status, err, <<>>) EXCEPT !.result = result]

\* what each handler registered on GET /invoices answers; client_id 0 stands
\* for a request without the query parameter.  The second statement has a
\* HAVING clause over ungrouped columns and no GROUP BY, which PostgreSQL
\* refuses, so that handler would end in its catch block
HandleGetInvoices(handler, client_id) ==
  IF handler = "listAllInvoices" THEN ReadResp(client_id, 200, "", ListAllInvoices)
  ELSE IF client_id = 0 THEN ReadResp(client_id, 400, "client_id_required", {})
  ELSE ReadResp(client_id, 500, "query_error", {})

GetInvoices(client_id) ==
  /\ lastResp' = HandleGetInvoices(Dispatch("GET", "/invoices"), client_id)
  /\ UNCHANGED <<store, inflight>>

\* clients c LEFT JOIN invoices i ON c.id = i.client_id
\*           LEFT JOIN payments p ON i.id = p.invoice_id, for one client:
\* one row per (invoice, payment) pair, one row with no payment for an invoice
\* without payments, one row with neither for a client without invoices
ClientJoin(c) ==
  LET mine == {i \in invoices : i.client_id = c.id}
  IN  IF mine = {} THEN {[invoice |-> <<>>, payment |-> <<>>]}
      ELSE UNION {IF PaymentsOf(i.id) = {}
                  THEN {[invoice |-> <<i>>, payment |-> <<>>]}
                  ELSE {[invoice |-> <<i>>, payment |-> <<p>>] : p \in PaymentsOf(i.id)}
                    : i \in mine}

\* COALESCE(SUM(i.amount), 0) - COALESCE(SUM(p.amount), 0) over the joined
\* rows of the group
JoinBalance(rows) ==
  SumAmounts({[row |-> x, amount |-> x.invoice[1].amount] :
                x \in {y \in rows : y.invoice # <<>>}})
    - SumAmounts({[row |-> x, amount |-> x.payment[1].amount] :
                    x \in {y \in rows : y.payment # <<>>}})

\* GROUP BY c.id, c.full_name, c.address, c.contact
ListClients ==
  {[id |-> c.id, full_name |-> c.full_name, address |-> c.address,
    contact |-> c.contact, balance |-> JoinBalance(ClientJoin(c))] : c \in clients}

GetClients ==
  /\ lastResp' = [Resp("GET /clients", 0, NoBody, 200, "", <<>>) EXCEPT !.result = ListClients]
  /\ UNCHANGED <<store, inflight>>

\* a listing that floors the balance at zero
ListPayments_Clamped ==
  {[id |-> x[1].id, client |-> x[3].full_name, invoice_number |-> x[2].invoice_number,
    mode |-> x[1].mode, amount |-> x[1].amount,
    balance_outstanding |->
      LET b == x[2].amount - SumAmounts({p \in payments : p.invoice_id = x[2].id})
      IN  IF b < 0 THEN 0 ELSE b] :
     x \in {y \in payments \X invoices \X clients :
              y[1].invoice_id = y[2].id /\ y[2].client_id = y[3].id}}

\* payments JOIN invoices JOIN clients, each row with the invoice's
\* amount - COALESCE((SELECT SUM(p.amount) ... WHERE p.invoice_id = invoices.id), 0)
ListPayments ==
  {[id |-> x[1].id, client |-> x[3].full_name, invoice_number |-> x[2].invoice_number,
    mode |-> x[1].mode, amount |-> x[1].amount,
    balance_outstanding |->
      x[2].amount - SumAmounts({p \in payments : p.invoice_id = x[2].id})] :
     x \in {y \in payments \X invoices \X clients :
              y[1].invoice_id = y[2].id /\ y[2].client_id = y[3].id}}

GetPayments ==
  /\ lastResp' = [Resp("GET /payments", 0, NoBody, 200, "", <<>>) EXCEPT !.result = ListPayments]
  /\ UNCHANGED <<store, inflight>>

\* the stores the read side is checked on: any rows the write side can leave
\* behind (payments can outlive their invoice, invoices their client, and the
\* payments of an invoice can exceed its amount)
ReadClients ==
  {[id |-> c, full_name |-> "name", address |-> "street", contact |-> "phone"] :
     c \in 1..ReadMaxClientId}

ReadInvoices ==
  {[id |-> i, client_id |-> c, invoice_number |-> RandBase + i - 1,
    item |-> "widget", amount |-> a, due_date |-> "2025-01-31",
    status |-> "Pending"] :
     i \in 1..ReadMaxInvoiceId, c \in 1..ReadMaxClientId, a \in 1..MaxAmount}

ReadPayments ==
  {[id |-> p, invoice_id |-> i, mode |-> "cash", amount |-> a] :
     p \in 1..ReadMaxPaymentId, i \in 1..ReadMaxInvoiceId, a \in 1..MaxAmount}

UniqueIds(rows) == \A x, y \in rows : x.id = y.id => x = y

InitRead ==
  /\ clients \in SUBSET ReadClients
  /\ invoices \in {s \in SUBSET ReadInvoices : UniqueIds(s)}
  /\ payments \in {s \in SUBSET ReadPayments : UniqueIds(s)}
  /\ nextClientId = ReadMaxClientId + 1
  /\ nextInvoiceId = ReadMaxInvoiceId + 1
  /\ nextPaymentId = ReadMaxPaymentId + 1
  /\ inflight = EmptyBag
  /\ lastResp = Resp("none", 0, NoBody, 0, "", <<>>)

NextRead ==
  \/ \E c \in 0..ReadMaxClientId : GetInvoices(c)
  \/ GetClients
  \/ GetPayments

SpecRead == InitRead /\ [][NextRead]_vars

\* ---------------------------------------------------------- the clients
ClientEntry(n, a, c) == [full_name |-> n, address |-> a, contact |-> c]

\* !full_name || !address || !contact
IncompleteClient(e) == e.full_name = "" \/ e.address = "" \/ e.contact = ""

\* POST /clients: the field check and the INSERT; the id sequence is capped
PostClients(cap, e) ==
  /\ UNCHANGED <<invoices, payments, nextInvoiceId, nextPaymentId, inflight>>
  /\ IF IncompleteClient(e)
     THEN /\ lastResp' = Resp("POST /clients", 0, <<e>>, 400, "fields", <<>>)
          /\ UNCHANGED <<clients, nextClientId>>
     ELSE LET row == [id |-> nextClientId, full_name |-> e.full_name,
                      address |-> e.address, contact |-> e.contact]
          IN  /\ nextClientId <= cap
              /\ clients' = clients \cup {row}
              /\ nextClientId' = nextClientId + 1
              /\ lastResp' = Resp("POST /clients", 0, <<e>>, 201, "", <<row>>)

\* DELETE /clients/:id: one DELETE statement, no check before it, always 200
DeleteClient(id) ==
  /\ clients' = {c \in clients : c.id # id}
  /\ lastResp' = Resp("DELETE /clients/:id", id, NoBody, 200, "", <<>>)
  /\ UNCHANGED <<invoices, payments, nextClientId, nextInvoiceId, nextPaymentId, inflight>>

ClientEntries ==
  {ClientEntry("name", "street", "phone"), ClientEntry("", "street", "phone"),
   ClientEntry("name", "", "phone"), ClientEntry("name", "street", "")}

ClientInvoiceBatches ==
  {<<InvoiceEntry(c, "widget", a, "2025-01-31", "")>> :
     c \in 1..MaxClientId, a \in 1..MaxAmount}

NextClients ==
  \/ \E e \in ClientEntries : PostClients(MaxClientId, e)
  \/ \E id \in 1..MaxClientId : DeleteClient(id)
  \/ \E b \in ClientInvoiceBatches : \E n \in [1..Len(b) -> RandomNumbers(NumDraws)] :
       PostInvoices(MaxInvoiceId, b, n)

SpecClients == Init /\ [][NextClients]_vars

\* ------------------- POST /invoices with COUNT(*) + 1 numbering (part_001)
\* the earlier single-invoice handler: it reads COUNT(*) + 1 in one query and
\* inserts in a second one; its rows carry no item
SeqEntry(c, a, d, s) == [client_id |-> c, amount |-> a, due_date |-> d, status |-> s]

\* !client_id || !amount || !due_date
IncompleteSeqEntry(e) == e.client_id = 0 \/ e.amount = 0 \/ e.due_date = ""

\* SELECT COUNT(*) + 1 AS next_invoice_number FROM invoices
NextInvoiceNumber == Cardinality(invoices) + 1

\* handlers suspended between their COUNT query and their INSERT
RECURSIVE PendingSeqPosts(_)
PendingSeqPosts(b) ==
  IF b = EmptyBag THEN 0
  ELSE LET r == CHOOSE x \in BagToSet(b) : TRUE
       IN  (IF r.op = "seqPost" THEN 1 ELSE 0) + PendingSeqPosts(b (-) SetToBag({r}))

\* the field check and the COUNT query; the number read travels in `id`
SeqPostStart(cap, e) ==
  /\ BagCardinality(inflight) < cap
  /\ UNCHANGED store
  /\ IF IncompleteSeqEntry(e)
     THEN /\ lastResp' = Resp("POST /invoices #count", 0, <<e>>, 400, "fields", <<>>)
          /\ UNCHANGED inflight
     ELSE /\ nextInvoiceId + PendingSeqPosts(inflight) <= SeqMaxInvoiceId
          /\ inflight' = Add(Req("seqPost", "insert", <<e>>, 0, NextInvoiceNumber, <<>>, <<>>))
          /\ UNCHANGED lastResp

\* INSERT INTO invoices (client_id, invoice_number, amount, due_date, status)
SeqPostInsert(r) ==
  LET e == r.batch[1]
      row == [id |-> nextInvoiceId, client_id |-> e.client_id,
              invoice_number |-> r.id, item |-> "", amount |-> e.amount,
              due_date |-> e.due_date,
              status |-> IF e.status = "" THEN "Pending" ELSE e.status]
  IN  /\ r \in InFlight /\ r.op = "seqPost" /\ r.pc = "insert"
      /\ inflight' = Remove(r)
      /\ nextInvoiceId' = nextInvoiceId + 1
      /\ UNCHANGED <<clients, payments, nextClientId, nextPaymentId>>
      /\ IF UniqueViolation(<<row>>)
         THEN /\ lastResp' = [Resp("POST /invoices #count", 0, r.batch, 500, "duplicate_key", <<>>)
                                EXCEPT !.nums = <<r.id>>]
              /\ UNCHANGED invoices
         ELSE /\ invoices' = invoices \cup {row}
              /\ lastResp' = [Resp("POST /invoices #count", 0, r.batch, 201, "", <<row>>)
                                EXCEPT !.nums = <<r.id>>]

SeqEntries ==
  {SeqEntry(1, 1, "2025-01-31", ""), SeqEntry(0, 1, "2025-01-31", ""),
   SeqEntry(1, 0, "2025-01-31", ""), SeqEntry(1, 1, "", "")}

NextSeq ==
  \/ \E e \in SeqEntries : SeqPostStart(MaxInFlight, e)
  \/ \E r \in InFlight : SeqPostInsert(r)
  \/ \E id \in 1..SeqMaxInvoiceId : DeleteInvoiceStart(MaxInFlight, id)
  \/ \E r \in InFlight : DeleteInvoiceExec(r)

SpecSeq == Init /\ [][NextSeq]_vars

\* ------------------------------------------------ the ledger, one request
\* at a time: a handler starts only when none is suspended (at most 1 in
\* flight), payment batches have one entry with a positive amount, and PUT
\* gives no amount
SerialInvoiceBatches ==
  {<<InvoiceEntry(1, "widget", a, "2025-01-31", "")>> : a \in 1..MaxAmount}

SerialPaymentBatches ==
  {<<PaymentEntry(i, "cash", a)>> : i \in 1..SerialMaxInvoiceId, a \in 1..MaxAmount}

NextSerial ==
  \/ /\ inflight = EmptyBag
     /\ \E b \in SerialInvoiceBatches : \E n \in [1..Len(b) -> RandomNumbers(SerialMaxInvoiceId)] :
          PostInvoices(SerialMaxInvoiceId, b, n)
  \/ \E id \in 1..SerialMaxInvoiceId : \E it \in PutItems : PutStart(1, id, <<>>, it)
  \/ \E r \in InFlight : PutUpdate(r)
  \/ \E id \in 1..SerialMaxInvoiceId : DeleteInvoiceStart(1, id)
  \/ \E r \in InFlight : DeleteInvoiceExec(r)
  \/ \E id \in 1..MaxPaymentId : DeletePaymentStart(1, id)
  \/ \E r \in InFlight : DeletePaymentExec(r)
  \/ \E b \in SerialPaymentBatches : PayStart(1, b)
  \/ \E r \in InFlight : PayCheck(r)
  \/ \E r \in InFlight : PayInsert(r)

SpecSerial == Init /\ [][NextSerial]_vars

\* ================================================================ claims
\* the handler r takes this step: one copy of it leaves the bag
Steps(r) == r \in InFlight /\ CopiesIn(r, inflight') < CopiesIn(r, inflight)

InvoiceOf(e) == {i \in invoices : i.id = e.invoice_id}

Overpays(e) == \E i \in InvoiceOf(e) : e.amount > Outstanding(i)

Passes(e) ==
  /\ ~IncompletePayment(e)
  /\ \E i \in InvoiceOf(e) : Outstanding(i) > 0 /\ e.amount <= Outstanding(i)

\* C1: in every reachable state every invoice has amount - sum(payments) >= 0.
C1_OutstandingNeverNegative == \A i \in invoices : Outstanding(i) >= 0

\* C2: when the entry a POST /payments handler validates, at any position,
\* exceeds the outstanding balance of its invoice, the request is answered 400,
\* the payments table is unchanged and the handler ends; a handler adds rows
\* only in its last step, after every entry was validated, so a rejected batch
\* has inserted none of its entries.
C2_OverpaymentRejectsWholeBatch ==
  [][\A r \in InFlight : (r.op = "pay" /\ Steps(r)) =>
       /\ (r.pc = "check" /\ Overpays(r.batch[r.idx])) =>
            /\ lastResp'.op = "POST /payments"
            /\ lastResp'.status = 400
            /\ lastResp'.body = r.batch
            /\ lastResp'.rows = <<>>
            /\ payments' = payments
            /\ inflight' = Remove(r)
       /\ payments' # payments => (r.pc = "insert" /\ inflight' = Remove(r))]_vars

\* a two-entry batch was rejected for its second entry, nothing was inserted
C2_Witness ==
  /\ lastResp.op = "POST /payments" /\ lastResp.status = 400
  /\ lastResp.err = "overpayment"
  /\ Len(lastResp.body) = 2
  /\ payments = {}
  /\ \E i \in invoices :
       /\ i.id = lastResp.body[1].invoice_id /\ i.id = lastResp.body[2].invoice_id
       /\ lastResp.body[1].amount <= Outstanding(i)
       /\ lastResp.body[2].amount > Outstanding(i)

\* C3: when an entry of a batch targets the same invoice as an earlier entry
\* of the batch and the two amounts, each within the outstanding balance,
\* sum to more than it, the entry is rejected with the overpayment error and
\* nothing is persisted.
C3_InBatchOverpaymentRejected ==
  [][\A r \in InFlight :
       (/\ r.op = "pay" /\ Steps(r) /\ r.pc = "check"
        /\ \E j \in 1..(r.idx - 1) : \E i \in InvoiceOf(r.batch[r.idx]) :
             /\ r.batch[j].invoice_id = i.id
             /\ r.batch[j].amount > 0 /\ r.batch[j].amount <= Outstanding(i)
             /\ r.batch[r.idx].amount > 0 /\ r.batch[r.idx].amount <= Outstanding(i)
             /\ r.batch[j].amount + r.batch[r.idx].amount > Outstanding(i))
       => /\ lastResp'.status = 400 /\ lastResp'.err = "overpayment"
          /\ payments' = payments
          /\ inflight' = Remove(r)]_vars

\* C4: the insert of a POST /payments handler is a store call of its own that
\* no lock and no second validation guards: a handler that has passed its
\* checks can always insert, whatever was committed since.
C4_InsertNeverBlocked ==
  \A r \in InFlight : (r.op = "pay" /\ r.pc = "insert") => ENABLED PayInsert(r)

\* a single-entry payment was just inserted on a stale check: the invoice, at
\* the largest amount, is overpaid
C4_Witness ==
  /\ lastResp.op = "POST /payments" /\ lastResp.status = 201
  /\ Len(lastResp.body) = 1
  /\ \E i \in invoices :
       /\ i.id = lastResp.body[1].invoice_id
       /\ i.amount = MaxAmount
       /\ \A p \in PaymentsOf(i.id) : p.amount > 0 /\ p.amount <= i.amount
       /\ Cardinality(PaymentsOf(i.id)) = 2
       /\ Outstanding(i) < 0

\* C5: an entry with a positive amount validated against an invoice whose
\* outstanding balance is <= 0 is answered 400 with the fully-paid error, and
\* nothing is inserted.
C5_SettledInvoiceRejected ==
  [][\A r \in InFlight :
       (/\ r.op = "pay" /\ Steps(r) /\ r.pc = "check"
        /\ r.batch[r.idx].amount > 0
        /\ \E i \in InvoiceOf(r.batch[r.idx]) : Outstanding(i) <= 0)
       => /\ lastResp'.op = "POST /payments"
          /\ lastResp'.status = 400 /\ lastResp'.err = "fully_paid"
          /\ lastResp'.rows = <<>>
          /\ payments' = payments
          /\ inflight' = Remove(r)]_vars

\* a payment of 1 was refused on an invoice that a payment of its full amount
\* had settled
C5_Witness ==
  /\ lastResp.op = "POST /payments" /\ lastResp.status = 400
  /\ lastResp.err = "fully_paid"
  /\ Len(lastResp.body) = 1 /\ lastResp.body[1].amount = 1
  /\ \E i \in invoices :
       /\ i.id = lastResp.body[1].invoice_id
       /\ Outstanding(i) = 0
       /\ \E p \in PaymentsOf(i.id) : p.amount = i.amount

\* C6: a handler whose entry passes validation goes on to the next entry or,
\* after the last one, to the insert; the insert adds exactly one new row per
\* entry, the k-th row with the k-th entry's invoice_id, mode and amount, and
\* answers 201 with those rows in submission order.
C6_ValidBatchPersistedInOrder ==
  [][\A r \in InFlight : (r.op = "pay" /\ Steps(r)) =>
       /\ (r.pc = "check" /\ Passes(r.batch[r.idx])) =>
            IF r.idx = Len(r.batch)
            THEN inflight' = Replace(r, [r EXCEPT !.pc = "insert"])
            ELSE ~IncompletePayment(r.batch[r.idx + 1])
                   => inflight' = Replace(r, [r EXCEPT !.idx = r.idx + 1])
       /\ r.pc = "insert" =>
            LET rows == lastResp'.rows
                n == Len(r.batch)
            IN  /\ lastResp'.op = "POST /payments" /\ lastResp'.status = 201
                /\ Len(rows) = n
                /\ \A k \in 1..n :
                     /\ rows[k].invoice_id = r.batch[k].invoice_id
                     /\ rows[k].mode = r.batch[k].mode
                     /\ rows[k].amount = r.batch[k].amount
                     /\ \A p \in payments : p.id # rows[k].id
                /\ payments' = payments \cup Range(rows)
                /\ Cardinality(payments') = Cardinality(payments) + n]_vars

Complete(b) == \A k \in 1..Len(b) : ~IncompleteInvoice(b[k])

DatesParse(b) == \A k \in 1..Len(b) : ParsesAsDate(b[k].due_date)

\* the generated numbers differ from each other and from every stored one
NumbersFresh(nums) ==
  /\ \A j, k \in 1..Len(nums) : j # k => nums[j] # nums[k]
  /\ \A k \in 1..Len(nums) : \A i \in invoices : i.invoice_number # nums[k]

C8_InvoiceBatchAllOrNothing ==
  [][lastResp'.op = "POST /invoices" =>
       LET b == lastResp'.body
           added == invoices' \ invoices
       IN  /\ invoices \subseteq invoices'
           /\ Cardinality(added) \in {0, Len(b)}
           /\ (\E k \in 1..Len(b) : IncompleteInvoice(b[k])) =>
                (lastResp'.status = 400 /\ added = {})
           /\ lastResp'.status # 201 => added = {}
           /\ lastResp'.status = 201 => Cardinality(added) = Len(b)]_vars

\* the store refused a batch whose first row alone it would have taken, and
\* no row of the batch is stored
C8_Witness ==
  /\ lastResp.op = "POST /invoices" /\ lastResp.status = 500
  /\ lastResp.err = "duplicate_key"
  /\ Len(lastResp.body) >= 2
  /\ \A i \in invoices : i.invoice_number # lastResp.nums[1]
  /\ invoices # {}
  /\ Cardinality(invoices) = nextInvoiceId - 1

C10_ClientQueryReturnsUnpaidInvoices ==
  (lastResp.op = "GET /invoices" /\ lastResp.arg # 0) =>
     (lastResp.status = 200 /\ lastResp.result = UnpaidInvoices(lastResp.arg))

\* sum over a client's invoices of amount - sum of the invoice's payments
ClientBalance(c) ==
  SumAmounts({[id |-> i.id, amount |-> Outstanding(i)] :
                i \in {j \in invoices : j.client_id = c}})

\* C11: the balance GET /clients returns for a client is the sum over the
\* client's invoices of (amount - sum of the invoice's payments), 0 for a
\* client without invoices.
C11_ClientBalanceIsSumOfOutstanding ==
  lastResp.op = "GET /clients" =>
    \A row \in lastResp.result : row.balance = ClientBalance(row.id)

\* amount - COALESCE(sum of the invoice's payments, 0), not clamped
DerivedBalance(i) == i.amount - SumAmounts({p \in payments : p.invoice_id = i.id})

\* C12: in the store state a GET /payments or GET /invoices response was
\* computed from, the balance_outstanding of every GET /payments row, the
\* amount - total_paid of every GET /invoices row and the balance POST
\* /payments would validate against are, for the same invoice, all equal to
\* amount - COALESCE(sum of its payments, 0), negative values included.
C12_BalanceDerivedConsistently ==
  /\ lastResp.op = "GET /payments" =>
       \A row \in lastResp.result : \A i \in invoices :
         i.invoice_number = row.invoice_number =>
           /\ row.balance_outstanding = DerivedBalance(i)
           /\ \A q \in BalanceQuery(i.id) : q.balance_outstanding = row.balance_outstanding
           /\ \A x \in ListAllInvoices :
                x.id = i.id => x.amount - x.total_paid = row.balance_outstanding
  /\ lastResp.op = "GET /invoices" =>
       \A x \in lastResp.result : \A i \in invoices :
         i.id = x.id =>
           /\ x.amount - x.total_paid = DerivedBalance(i)
           /\ \A q \in BalanceQuery(i.id) : q.balance_outstanding = x.amount - x.total_paid

\* GET /payments listed the two payments of an overpaid invoice with a
\* negative balance
C12_Witness ==
  /\ lastResp.op = "GET /payments"
  /\ Cardinality(lastResp.result) = 2
  /\ \A row \in lastResp.result : row.balance_outstanding < 0
  /\ \E i \in invoices : Cardinality(PaymentsOf(i.id)) = 2 /\ BalanceQuery(i.id) # {}

\* C13: a DELETE /clients/:id on a client that owns invoices either removes
\* the client together with all of its invoices or leaves the client in
\* place.
C13_ClientDeleteCascadesOrIsRejected ==
  [][(/\ lastResp'.op = "DELETE /clients/:id"
      /\ \E c \in clients : c.id = lastResp'.arg
      /\ \E i \in invoices : i.client_id = lastResp'.arg)
     => \/ clients' = clients
        \/ /\ \A c \in clients' : c.id # lastResp'.arg
           /\ \A i \in invoices' : i.client_id # lastResp'.arg]_vars

\* C14: a POST /payments batch that is empty, or in which an entry at any
\* position lacks invoice_id, mode or amount, is answered with the
\* missing-field validation error, whatever the invoices of its other entries
\* are.
C14_MissingFieldReportedFirst ==
  (/\ lastResp.op = "POST /payments"
   /\ \/ Len(lastResp.body) = 0
      \/ \E k \in 1..Len(lastResp.body) : IncompletePayment(lastResp.body[k]))
  => (lastResp.status = 400 /\ lastResp.err \in {"empty", "fields"})

\* C15: every stored payment has a strictly positive amount.
C15_PaymentAmountsPositive == \A p \in payments : p.amount > 0

C17_PutAnswers404OrRecord ==
  lastResp.op = "PUT /invoices/:id" =>
    \/ lastResp.status = 404
    \/ lastResp.status = 200 /\ Len(lastResp.rows) = 1

\* the request r enters the bag in this step
Starts(r) == CopiesIn(r, inflight') > CopiesIn(r, inflight)

\* C18: no step of a POST /payments handler changes an invoice, a client or
\* an existing payment row; in every step of the system an existing payment
\* row either stays as it is or disappears with its id in the DELETE of a
\* DELETE /payments/:id handler for that id.
C18_PaymentsOnlyAddedOrDeleted ==
  [][/\ \A r \in InFlight : (r.op = "pay" /\ Steps(r)) =>
          (invoices' = invoices /\ clients' = clients /\ payments \subseteq payments')
     /\ \A r \in BagToSet(inflight') : (r.op = "pay" /\ Starts(r)) => UNCHANGED store
     /\ (lastResp'.op = "POST /payments" /\ lastResp' # lastResp) =>
          (invoices' = invoices /\ clients' = clients /\ payments \subseteq payments')
     /\ \A p \in payments :
          \/ p \in payments'
          \/ /\ \A q \in payments' : q.id # p.id
             /\ \E r \in InFlight : r.op = "deletePayment" /\ r.id = p.id /\ Steps(r)]_vars

\* a payment was recorded that brought an invoice's balance to zero beside an
\* earlier payment, and the invoice still has the status it was created with
C18_Witness ==
  /\ lastResp.op = "POST /payments" /\ lastResp.status = 201
  /\ Cardinality(payments) >= 2
  /\ \E i \in invoices :
       /\ i.id = lastResp.rows[1].invoice_id
       /\ Outstanding(i) = 0
       /\ i.status = "Pending"

\* C19: DELETE /invoices/:id answers 404 and changes nothing when the invoice
\* does not exist; when it exists the handler goes on to its DELETE, which
\* removes the invoice row with that id and no other, answers 200 and leaves
\* payments and clients unchanged.
C19_DeleteInvoiceRemovesOnlyTheInvoice ==
  [][/\ (lastResp'.op = "DELETE /invoices/:id" /\ lastResp'.status = 404
           /\ lastResp' # lastResp) =>
          (UNCHANGED store /\ \A i \in invoices : i.id # lastResp'.arg)
     /\ \A r \in BagToSet(inflight') : (r.op = "deleteInvoice" /\ Starts(r)) =>
          (UNCHANGED store /\ \E i \in invoices : i.id = r.id)
     /\ \A r \in InFlight : (r.op = "deleteInvoice" /\ Steps(r)) =>
          /\ invoices' = {i \in invoices : i.id # r.id}
          /\ payments' = payments
          /\ clients' = clients
          /\ lastResp'.op = "DELETE /invoices/:id" /\ lastResp'.status = 200]_vars

\* an invoice was deleted and a payment that references it is still stored
C19_Witness ==
  /\ lastResp.op = "DELETE /invoices/:id" /\ lastResp.status = 200
  /\ \A i \in invoices : i.id # lastResp.arg
  /\ \E p \in payments : p.invoice_id = lastResp.arg

\* C20: in the COUNT(*) + 1 variant the number a creation generated is, when
\* its INSERT runs, the number of no stored invoice, and no two stored
\* invoices share an invoice number.
C20_SequentialNumbersUnique ==
  [][\A r \in InFlight : (r.op = "seqPost" /\ Steps(r)) =>
       /\ \A i \in invoices : i.invoice_number # r.id
       /\ \A i, j \in invoices' : i.id # j.id => i.invoice_number # j.invoice_number]_vars

\* the outstanding balance of invoice i in the state a step leads to
OutstandingAfter(i) == i.amount - SumAmounts({p \in payments' : p.invoice_id = i.id})

====
